---- MODULE Spec2Model ----
(***************************************************************************)
(* The /api/aggregate endpoint of Backend/main.py (aggregate_data) as a    *)
(* state machine: one call of the handler per request slot, one action per *)
(* statement group of the handler, and the store (the spotify_streams      *)
(* table behind psycopg2) as an interpreter of the statement text the      *)
(* handler builds.                                                         *)
(*                                                                         *)
(* Python values.  A str is a sequence of tokens; a token is one character *)
(* (",", " ", a digit, "x", "+", "-") or an indivisible word that holds    *)
(* neither a comma nor white space ("artist_name", "bogus", "A").  An      *)
(* Optional value is a sequence of length 0 (None) or 1.  An element of    *)
(* the heterogeneous list params is tagged with its Python type.           *)
(***************************************************************************)
EXTENDS Integers, Sequences, FiniteSets, TLC

\* ------------------------------------------------------------------ bounds

\* Longest group_by query-string value, in tokens.
MaxGroupLen == 3
\* Most comma-separated items in a filter_artists / filter_years value.
MaxFilterVals == 2
\* Most rows of spotify_streams in the specification of the query semantics.
MaxRows == 3

\* ----------------------------------------------------------- str helpers

None == << >>
Some(v) == << v >>

\* A one-word str.
W(t) == << t >>

Digits == << "0", "1", "2", "3", "4", "5", "6", "7", "8", "9" >>

IsDigit(t) == \E i \in 1..10 : Digits[i] = t

DigitValue(t) == (CHOOSE i \in 1..10 : Digits[i] = t) - 1

IsSpace(t) == t = " "

RECURSIVE Split(_, _)
\* str.split(sep) for a one-character sep: always at least one piece.
Split(s, sep) ==
    IF \A i \in 1..Len(s) : s[i] # sep
    THEN << s >>
    ELSE LET k == CHOOSE i \in 1..Len(s) :
                     s[i] = sep /\ \A j \in 1..(i - 1) : s[j] # sep
         IN << SubSeq(s, 1, k - 1) >> \o Split(SubSeq(s, k + 1, Len(s)), sep)

\* str.strip(): leading and trailing white space removed.
Strip(s) ==
    IF \A i \in 1..Len(s) : IsSpace(s[i])
    THEN << >>
    ELSE LET lo == CHOOSE i \in 1..Len(s) :
                      ~IsSpace(s[i]) /\ \A j \in 1..(i - 1) : IsSpace(s[j])
             hi == CHOOSE i \in 1..Len(s) :
                      ~IsSpace(s[i]) /\ \A j \in (i + 1)..Len(s) : IsSpace(s[j])
         IN SubSeq(s, lo, hi)

RECURSIVE Join(_, _)
\* sep.join(list)
Join(list, sep) ==
    IF list = << >> THEN << >>
    ELSE IF Len(list) = 1 THEN list[1]
    ELSE list[1] \o sep \o Join(Tail(list), sep)

\* ['%s'] * n
Repeat(x, n) == [i \in 1..n |-> x]

\* int(str) succeeds: optional white space around an optional sign and at
\* least one digit (underscore digit grouping is outside the alphabet).
IsIntLiteral(s) ==
    LET t == Strip(s)
        body == IF t # << >> /\ t[1] \in {"+", "-"} THEN Tail(t) ELSE t
    IN /\ body # << >>
       /\ \A i \in 1..Len(body) : IsDigit(body[i])

RECURSIVE DecimalValue(_)
DecimalValue(ds) ==
    IF ds = << >> THEN 0
    ELSE 10 * DecimalValue(SubSeq(ds, 1, Len(ds) - 1)) + DigitValue(ds[Len(ds)])

\* int(str), where it succeeds.
IntOf(s) ==
    LET t == Strip(s)
    IN IF t[1] = "-" THEN 0 - DecimalValue(Tail(t))
       ELSE IF t[1] = "+" THEN DecimalValue(Tail(t))
       ELSE DecimalValue(t)

\* Tagged elements of a heterogeneous Python list.
PyStr(s) == [t |-> "str", v |-> s]
PyInt(n) == [t |-> "int", v |-> n]

\* Python truthiness of an Optional[str]: None and "" are falsy.
Truthy(opt) == opt # None /\ opt[1] # << >>

\* All sequences over S of a length in lo..hi.
SeqsOver(S, lo, hi) == UNION {[1..n -> S] : n \in lo..hi}

\* -------------------------------------------------- the store's table

\* CREATE TABLE spotify_streams: the columns of the model's rows, with the
\* kind of value each holds.
ColumnType ==
    [artist_name |-> "text", track_name |-> "text", album_name |-> "text",
     day_of_week |-> "text",
     year |-> "integer", month |-> "integer", hour |-> "integer",
     minutes_played |-> "decimal"]

\* A Play Record: the groupable dimensions and the duration.  The model
\* varies the artist, the year and the duration; minutes_played is a whole
\* number here and, as the data model has it, never NULL.
Play(artist, year, minutes) ==
    [artist_name |-> W(artist), track_name |-> W("T"), album_name |-> W("L"),
     year |-> year, month |-> 1, day_of_week |-> W("Monday"), hour |-> 0,
     minutes_played |-> minutes]

\* The table of the spec's worked example.
ExampleTable ==
    << Play("A", 2020, 10), Play("A", 2021, 5), Play("B", 2020, 20) >>

\* The records the query-semantics specification builds its tables from.
RecordList ==
    << Play("A", 2020, 5), Play("A", 2020, 10), Play("A", 2021, 5),
       Play("B", 2020, 5), Play("B", 2021, 10), Play("C", 2021, 5) >>

\* Every table of at most MaxRows rows of RecordList (rows in list order:
\* the queries are insensitive to the order of storage).
AllTables ==
    { [i \in 1..Len(ix) |-> RecordList[ix[i]]] :
        ix \in { s \in SeqsOver(1..Len(RecordList), 0, MaxRows) :
                   \A i \in 1..(Len(s) - 1) : s[i] <= s[i + 1] } }

\* ------------------------------------------------------- query strings

\* limit: int = Query(50, ge=1, le=1000)
LimitDefault == 50
LimitMin == 1
LimitMax == 1000

GroupAlphabet == {"artist_name", "year", "bogus", ",", " "}

GroupByInputs == SeqsOver(GroupAlphabet, 0, MaxGroupLen)

Y2020 == << "2", "0", "2", "0" >>
Y2021 == << "2", "0", "2", "1" >>

ArtistItems == { W("A"), W("B"), << " ", "B" >>, << >> }

YearItems == { Y2020, << " " >> \o Y2021 \o << " " >>, W("x"), << >> }

\* None, or the comma-separated join of 1..MaxFilterVals items.
FilterInputs(items) ==
    {None} \cup { Some(Join(l, W(","))) : l \in SeqsOver(items, 1, MaxFilterVals) }

LimitInputs == { None, Some(0), Some(1), Some(1000), Some(1001) }

\* The query string of a request whose parameters are left open: each is
\* chosen where the handler first reads it.
OpenRequest ==
    [open |-> TRUE, group_by |-> << >>, filter_artists |-> None,
     filter_years |-> None, limit |-> None, top_per_group |-> FALSE]

QueryString(g, a, y, l, t) ==
    [open |-> FALSE, group_by |-> g, filter_artists |-> a,
     filter_years |-> y, limit |-> l, top_per_group |-> t]

\* --------------------------------------------------------------- state

\* The request slots: each serves one call of aggregate_data.
Reqs == {1, 2, 3}

VARIABLES
    request,          \* request[r]: the query string of slot r's request
    call,             \* call[r]: position and local variables of slot r's call
    spotify_streams   \* the table behind the store

vars == << request, call, spotify_streams >>

NoResponse == [status |-> 0, exc |-> "", detail |-> << >>, data |-> << >>]

\* A call's frame before its first statement.  executes counts the calls of
\* cur.execute, store_errors the exceptions the store's driver raised.
Frame(pc) ==
    [pc |-> pc, limit_arg |-> None, limit |-> 0, top_per_group |-> FALSE,
     group_by_columns |-> << >>, artist_list |-> << >>, year_list |-> << >>,
     where_clauses |-> << >>, params |-> << >>, query |-> << >>,
     conn |-> "none", cur |-> "none", rowset |-> << >>, results |-> << >>,
     executes |-> 0, store_errors |-> 0, response |-> NoResponse]

\* The values a parameter of slot r's request may take.
Offered(r, name, all) ==
    IF request[r].open THEN all ELSE { request[r][name] }

\* The call's frame with the fields of upd replaced.
With(r, upd) ==
    [call EXCEPT ![r] =
        [f \in DOMAIN call[r] |-> IF f \in DOMAIN upd THEN upd[f] ELSE call[r][f]]]

\* The call ends with an HTTP response; the frame keeps the locals bound so far.
Respond(status, exc, detail, data) ==
    [pc |-> "done",
     response |-> [status |-> status, exc |-> exc, detail |-> detail, data |-> data]]

\* An exception no handler catches: the framework answers 500.
Raise(exc, detail) == Respond(500, exc, detail, << >>)

\* ------------------------------------------- request validation (l. 157-163)

\* Variant: the upper bound taken one too high.
LimitAcceptedOffByOne(l) == l = None \/ (LimitMin <= l[1] /\ l[1] <= LimitMax + 1)
\* Query(50, ge=1, le=1000): an omitted limit passes, a given one must be in range.
LimitAccepted(l) == l = None \/ (LimitMin <= l[1] /\ l[1] <= LimitMax)

\* The framework binds the parameters before the handler's body runs; a
\* limit out of range is answered 422 and the body never runs.
Validate(r) ==
    /\ call[r].pc = "recv"
    /\ \E l \in Offered(r, "limit", LimitInputs) :
          call' = IF LimitAccepted(l)
                  THEN With(r, [pc |-> "parse", limit_arg |-> l,
                                limit |-> IF l = None THEN LimitDefault ELSE l[1]])
                  ELSE With(r, [limit_arg |-> l] @@
                                Respond(422, "RequestValidationError", W("limit"), << >>))
    /\ UNCHANGED << request, spotify_streams >>

\* ------------------------------------------------ group_by (l. 165-177)

ALLOWED_GROUP_BY ==
    << W("artist_name"), W("track_name"), W("album_name"),
       W("year"), W("month"), W("day_of_week"), W("hour") >>

\* col in ALLOWED_GROUP_BY
Allowed(col) == \E i \in 1..Len(ALLOWED_GROUP_BY) : ALLOWED_GROUP_BY[i] = col

\* [col.strip() for col in group_by.split(',')]
ParseColumns(group_by) ==
    LET pieces == Split(group_by, ",")
    IN [i \in 1..Len(pieces) |-> Strip(pieces[i])]

\* Variant: only the first column is checked against the whitelist.
FirstInvalidHeadOnly(cols) == IF Allowed(cols[1]) THEN 0 ELSE 1
\* The index of the column the whitelist loop raises on, 0 when it raises on none.
FirstInvalid(cols) ==
    IF \A i \in 1..Len(cols) : Allowed(cols[i]) THEN 0
    ELSE CHOOSE i \in 1..Len(cols) :
            ~Allowed(cols[i]) /\ \A j \in 1..(i - 1) : Allowed(cols[j])

ParseGroupBy(r) ==
    /\ call[r].pc = "parse"
    /\ \E g \in Offered(r, "group_by", GroupByInputs) :
          LET cols == ParseColumns(g)
              bad == FirstInvalid(cols)
          IN call' = IF bad = 0
                     THEN With(r, [pc |-> "artists", group_by_columns |-> cols])
                     ELSE With(r, [group_by_columns |-> cols] @@
                                   Respond(400, "HTTPException",
                                           W("Invalid column: ") \o cols[bad], << >>))
    /\ UNCHANGED << request, spotify_streams >>

\* ------------------------------------------------- filters (l. 179-197)

\* Variant: params is one list shared by the calls, so a call starts from
\* what another call has put there.
NewParamsShared(r) ==
    IF \E o \in Reqs \ {r} : call[o].params # << >>
    THEN call[CHOOSE o \in Reqs \ {r} : call[o].params # << >>].params
    ELSE << >>
\* params = []: the list a call binds at line 181, its own and empty.
NewParams(r) == << >>

\* f"{col} IN ({placeholders})" with placeholders = ', '.join(['%s'] * n)
InClause(col, n) ==
    W(col) \o << " ", "IN", " ", "(" >>
           \o Join(Repeat(W("%s"), n), << ",", " " >>) \o << ")" >>

\* [a.strip() for a in filter_artists.split(',')]
ArtistList(filter_artists) ==
    LET pieces == Split(filter_artists, ",")
    IN [i \in 1..Len(pieces) |-> Strip(pieces[i])]

FilterArtists(r) ==
    /\ call[r].pc = "artists"
    /\ \E a \in Offered(r, "filter_artists", FilterInputs(ArtistItems)) :
          call' = IF Truthy(a)
                  THEN LET artist_list == ArtistList(a[1])
                       IN With(r, [pc |-> "years",
                                   artist_list |-> artist_list,
                                   where_clauses |->
                                       << InClause("artist_name", Len(artist_list)) >>,
                                   params |-> NewParams(r) \o
                                       [i \in 1..Len(artist_list) |-> PyStr(artist_list[i])]])
                  ELSE With(r, [pc |-> "years", where_clauses |-> << >>,
                                params |-> NewParams(r)])
    /\ UNCHANGED << request, spotify_streams >>

\* The pieces of filter_years, each as int(y.strip()) reads it.
YearPieces(filter_years) ==
    LET pieces == Split(filter_years, ",")
    IN [i \in 1..Len(pieces) |-> Strip(pieces[i])]

FilterYears(r) ==
    /\ call[r].pc = "years"
    /\ \E y \in Offered(r, "filter_years", FilterInputs(YearItems)) :
          call' =
            IF ~Truthy(y) THEN With(r, [pc |-> "query"])
            ELSE LET pieces == YearPieces(y[1])
                     badAt == {i \in 1..Len(pieces) : ~IsIntLiteral(pieces[i])}
                 IN IF badAt # {}
                    THEN \* int() raises ValueError on the first piece it cannot read
                         With(r, Raise("ValueError",
                                       pieces[CHOOSE i \in badAt : \A j \in badAt : i <= j]))
                    ELSE LET year_list == [i \in 1..Len(pieces) |-> IntOf(pieces[i])]
                         IN With(r, [pc |-> "query",
                                     year_list |-> year_list,
                                     where_clauses |-> Append(call[r].where_clauses,
                                                        InClause("year", Len(year_list))),
                                     params |-> call[r].params \o
                                         [i \in 1..Len(year_list) |-> PyInt(year_list[i])]])
    /\ UNCHANGED << request, spotify_streams >>

\* --------------------------------------------- statement text (l. 197-234)

\* Variant: the filters joined with OR.
WhereSqlOr(where_clauses) ==
    IF where_clauses # << >> THEN Join(where_clauses, << " ", "OR", " " >>)
    ELSE W("1=1")
\* " AND ".join(where_clauses) if where_clauses else "1=1"
WhereSql(where_clauses) ==
    IF where_clauses # << >> THEN Join(where_clauses, << " ", "AND", " " >>)
    ELSE W("1=1")

\* ", ".join(group_by_columns): select_columns and group_by_clause
ColumnList(group_by_columns) == Join(group_by_columns, << ",", " " >>)

\* top_per_group and len(group_by_columns) > 1
UseRanked(top_per_group, group_by_columns) ==
    top_per_group /\ Len(group_by_columns) > 1

\* The f-string of lines 223-232.
PlainQuery(select_columns, where_sql, group_by_clause) ==
    << "SELECT" >> \o select_columns
       \o << ",", "SUM(minutes_played)", "as", "total_minutes",
             ",", "COUNT(*)", "as", "play_count",
             "FROM", "spotify_streams", "WHERE" >> \o where_sql
       \o << "GROUP BY" >> \o group_by_clause
       \o << "ORDER BY", "total_minutes", "DESC", "LIMIT", "%s" >>

\* PARTITION BY {primary_group}: group_by_columns[0]
PrimaryGroup(group_by_columns) == group_by_columns[1]

\* The f-string of lines 206-221.
RankedQuery(select_columns, primary_group, where_sql, group_by_clause) ==
    << "WITH", "ranked", "AS", "(", "SELECT" >> \o select_columns
       \o << ",", "SUM(minutes_played)", "as", "total_minutes",
             ",", "COUNT(*)", "as", "play_count",
             ",", "ROW_NUMBER()", "OVER", "(", "PARTITION BY" >> \o primary_group
       \o << "ORDER BY", "SUM(minutes_played)", "DESC", ")", "as", "rn",
             "FROM", "spotify_streams", "WHERE" >> \o where_sql
       \o << "GROUP BY" >> \o group_by_clause
       \o << ")", "SELECT" >> \o select_columns
       \o << ",", "total_minutes", ",", "play_count", "FROM", "ranked",
             "WHERE", "rn", "=", "1",
             "ORDER BY", "total_minutes", "DESC", "LIMIT", "%s" >>

\* The statement text of a call with these locals.
QueryText(group_by_columns, where_clauses, top_per_group) ==
    IF UseRanked(top_per_group, group_by_columns)
    THEN RankedQuery(ColumnList(group_by_columns), PrimaryGroup(group_by_columns),
                     WhereSql(where_clauses), ColumnList(group_by_columns))
    ELSE PlainQuery(ColumnList(group_by_columns), WhereSql(where_clauses),
                    ColumnList(group_by_columns))

\* Variant: the limit put before the filter values.
WithLimitFirst(params, limit) == << PyInt(limit) >> \o params
\* params.append(limit)
WithLimit(params, limit) == Append(params, PyInt(limit))

BuildQuery(r) ==
    /\ call[r].pc = "query"
    /\ \E t \in Offered(r, "top_per_group", BOOLEAN) :
          call' = With(r, [pc |-> "connect",
                           top_per_group |-> t,
                           query |-> QueryText(call[r].group_by_columns,
                                               call[r].where_clauses, t),
                           params |-> WithLimit(call[r].params, call[r].limit)])
    /\ UNCHANGED << request, spotify_streams >>

\* ------------------------------------------------------------ the store
\* cur.execute(query, params) as the store answers it: the statement text is
\* read back token by token, so that what the handler wrote decides the rows.

NotSpace(t) == ~IsSpace(t)

\* The statement's tokens, white space dropped.
Lex(text) == SelectSeq(text, NotSpace)

\* The first position >= from that holds one of toks, 0 when there is none.
FirstAt(L, toks, from) ==
    IF \E i \in from..Len(L) : L[i] \in toks
    THEN CHOOSE i \in from..Len(L) :
            L[i] \in toks /\ \A j \in from..(i - 1) : L[j] \notin toks
    ELSE 0

\* The maximal ranges << a, b >> of lo..hi that hold no sep token.
Ranges(L, lo, hi, sep) ==
    LET starts == {lo} \cup {i + 1 : i \in {j \in lo..hi : L[j] = sep}}
        stop(a) == IF \E i \in a..hi : L[i] = sep
                   THEN (CHOOSE i \in a..hi :
                            L[i] = sep /\ \A j \in a..(i - 1) : L[j] # sep) - 1
                   ELSE hi
    IN { << a, stop(a) >> : a \in starts }

\* The parts of a statement of the two shapes the handler writes.
Parse(L) ==
    LET iSel == FirstAt(L, {"SELECT"}, 1)
        iSum == FirstAt(L, {"SUM(minutes_played)"}, 1)
        iW == FirstAt(L, {"WHERE"}, 1)
        iG == FirstAt(L, {"GROUP BY"}, 1)
        iE == FirstAt(L, {")", "ORDER BY"}, iG + 1)
        iP == FirstAt(L, {"PARTITION BY"}, 1)
    IN [ranked |-> L[1] = "WITH",
        select |-> Split(SubSeq(L, iSel + 1, iSum - 2), ","),
        group |-> Split(SubSeq(L, iG + 1, iE - 1), ","),
        partition |-> IF iP = 0 THEN << >> ELSE << L[iP + 1] >>,
        condLo |-> iW + 1, condHi |-> iG - 1]

\* The bind value of the placeholder at position i: placeholders take the
\* values of params in the order they stand in the text.
Bound(L, params, i) ==
    params[Cardinality({j \in 1..i : L[j] = "%s"})]

\* The predicates of the WHERE clause: OR of AND of atoms, each a range.
Disjuncts(L, q) == Ranges(L, q.condLo, q.condHi, "OR")
Atoms(L, d) == Ranges(L, d[1], d[2], "AND")

IsColumn(c) == Len(c) = 1 /\ c[1] \in DOMAIN ColumnType

\* A bind value the store can compare with a column of this type.
Comparable(type, p) ==
    \/ type = "text" /\ p.t = "str"
    \/ type = "integer" /\ p.t = "int"
    \/ type = "integer" /\ p.t = "str" /\ IsIntLiteral(p.v)

\* column = value, as the store compares them.
Equal(type, value, p) ==
    IF type = "integer" /\ p.t = "str" THEN value = IntOf(p.v) ELSE value = p.v

AtomOk(L, params, a) ==
    \/ a[1] = a[2] /\ L[a[1]] = "1=1"
    \/ /\ a[2] >= a[1] + 4
       /\ L[a[1]] \in DOMAIN ColumnType
       /\ L[a[1] + 1] = "IN"
       /\ \A i \in a[1]..a[2] :
             L[i] = "%s" => Comparable(ColumnType[L[a[1]]], Bound(L, params, i))

\* The statement is one the store executes: as many placeholders as bind
\* values, known columns, comparable values, a usable LIMIT.
StatementOk(L, params) ==
    LET q == Parse(L)
    IN /\ Cardinality({j \in 1..Len(L) : L[j] = "%s"}) = Len(params)
       /\ \A i \in 1..Len(q.select) : IsColumn(q.select[i])
       /\ \A i \in 1..Len(q.group) : IsColumn(q.group[i])
       /\ \A i \in 1..Len(q.select) :
             \E j \in 1..Len(q.group) : q.group[j] = q.select[i]
       /\ q.ranked => /\ q.partition # << >>
                      /\ \E j \in 1..Len(q.group) : q.group[j] = q.partition
                      \* the outer SELECT names the columns of ranked: a name
                      \* ranked holds twice is an ambiguous reference
                      /\ \A i, j \in 1..Len(q.select) :
                            i # j => q.select[i] # q.select[j]
       /\ \A d \in Disjuncts(L, q) : \A a \in Atoms(L, d) : AtomOk(L, params, a)
       /\ L[Len(L)] = "%s" /\ L[Len(L) - 1] = "LIMIT"
       /\ params[Len(params)].t = "int" /\ params[Len(params)].v >= 0

\* rec satisfies the atom col IN (%s, ...).
AtomHolds(L, params, a, rec) ==
    \/ L[a[1]] = "1=1"
    \/ /\ L[a[1]] # "1=1"
       /\ \E i \in a[1]..a[2] :
             /\ L[i] = "%s"
             /\ Equal(ColumnType[L[a[1]]], rec[L[a[1]]], Bound(L, params, i))

\* rec satisfies the WHERE clause.
Matches(L, params, rec) ==
    \E d \in Disjuncts(L, Parse(L)) :
        \A a \in Atoms(L, d) : AtomHolds(L, params, a, rec)

\* The tuple of rec's values in these columns.
Key(cols, rec) == [j \in 1..Len(cols) |-> rec[cols[j][1]]]

RECURSIVE SumMinutes(_, _)
\* SUM(minutes_played) over the rows of table at the indices ix.
SumMinutes(table, ix) ==
    IF ix = {} THEN 0
    ELSE LET i == CHOOSE j \in ix : TRUE
         IN table[i].minutes_played + SumMinutes(table, ix \ {i})

\* The groups of GROUP BY: one per distinct key among the matching rows, with
\* its output columns, SUM(minutes_played) and COUNT(*).
Groups(L, params, table) ==
    LET q == Parse(L)
        hit == {i \in 1..Len(table) : Matches(L, params, table[i])}
        keys == {Key(q.group, table[i]) : i \in hit}
        members(k) == {i \in hit : Key(q.group, table[i]) = k}
        part(k) == IF q.ranked
                   THEN k[CHOOSE j \in 1..Len(q.group) : q.group[j] = q.partition]
                   ELSE 0
        out(k) == Key(q.select, table[CHOOSE i \in members(k) : TRUE])
    IN { [key |-> k, out |-> out(k), part |-> Some(part(k)),
          total |-> SumMinutes(table, members(k)),
          count |-> Cardinality(members(k))] : k \in keys }

\* Variant: the rank filter left out, every group kept.
RankOneUnfiltered(groups) == { groups }
\* WHERE rn = 1: one group of the largest total per partition; the store
\* breaks ties as it likes.
RankOne(groups) ==
    LET parts == {g.part : g \in groups}
        best(p) == {g \in groups :
                       g.part = p /\ \A h \in groups : h.part = p => h.total <= g.total}
    IN { {ch[p] : p \in parts} : ch \in { f \in [parts -> groups] :
                                            \A p \in parts : f[p] \in best(p) } }

\* Variant: ORDER BY total_minutes ASC.
OrderedAscending(groups) ==
    { f \in [1..Cardinality(groups) -> groups] :
        /\ \A i, j \in 1..Cardinality(groups) : i # j => f[i] # f[j]
        /\ \A i \in 1..(Cardinality(groups) - 1) : f[i].total <= f[i + 1].total }
\* ORDER BY total_minutes DESC: every order of the groups with totals
\* descending; the store orders equal totals as it likes.
Ordered(groups) ==
    { f \in [1..Cardinality(groups) -> groups] :
        /\ \A i, j \in 1..Cardinality(groups) : i # j => f[i] # f[j]
        /\ \A i \in 1..(Cardinality(groups) - 1) : f[i].total >= f[i + 1].total }

\* LIMIT n
Limited(rows, n) == IF Len(rows) <= n THEN rows ELSE SubSeq(rows, 1, n)

\* A result row: the output columns, then total_minutes, then play_count.
Row(g) == g.out \o << g.total, g.count >>

\* The row sequences the store may answer the statement with.
ResultSets(text, params, table) ==
    LET L == Lex(text)
        groups == Groups(L, params, table)
        kept == IF Parse(L).ranked THEN RankOne(groups) ELSE { groups }
        n == params[Len(params)].v
    IN UNION { { LET rows == Limited(f, n)
                 IN [i \in 1..Len(rows) |-> Row(rows[i])] : f \in Ordered(k) }
               : k \in kept }

\* ------------------------------------------------- execution (l. 236-241)

\* conn = get_db_connection()
Connect(r) ==
    /\ call[r].pc = "connect"
    /\ call' = With(r, [pc |-> "cursor", conn |-> "open"])
    /\ UNCHANGED << request, spotify_streams >>

\* psycopg2.connect raises: no connection was made.
ConnectFails(r) ==
    /\ call[r].pc = "connect"
    /\ call' = With(r, [store_errors |-> call[r].store_errors + 1] @@
                        Raise("OperationalError", << >>))
    /\ UNCHANGED << request, spotify_streams >>

\* cur = conn.cursor()
Cursor(r) ==
    /\ call[r].pc = "cursor"
    /\ call' = With(r, [pc |-> "execute", cur |-> "open"])
    /\ UNCHANGED << request, spotify_streams >>

CursorFails(r) ==
    /\ call[r].pc = "cursor"
    /\ call' = With(r, [store_errors |-> call[r].store_errors + 1] @@
                        Raise("InterfaceError", << >>))
    /\ UNCHANGED << request, spotify_streams >>

\* Variant: the exception caught and answered as an empty result.
OnExecuteErrorEmptyResult(exc) == Respond(200, "", << >>, << >>)
\* What the handler does when cur.execute raises: nothing, the exception
\* leaves the handler.
OnExecuteError(exc) == Raise(exc, << >>)

\* cur.execute(query, params): the store runs the statement, or rejects it.
Execute(r) ==
    /\ call[r].pc = "execute"
    /\ LET L == Lex(call[r].query)
       IN IF StatementOk(L, call[r].params)
          THEN \E rows \in ResultSets(call[r].query, call[r].params, spotify_streams) :
                  call' = With(r, [pc |-> "fetch", rowset |-> rows,
                                   executes |-> call[r].executes + 1])
          ELSE call' = With(r, [executes |-> call[r].executes + 1,
                                store_errors |-> call[r].store_errors + 1] @@
                                OnExecuteError("ProgrammingError"))
    /\ UNCHANGED << request, spotify_streams >>

\* cur.execute raises for the store's own reasons (time-out, lost connection).
ExecuteFails(r) ==
    /\ call[r].pc = "execute"
    /\ call' = With(r, [executes |-> call[r].executes + 1,
                         store_errors |-> call[r].store_errors + 1] @@
                        OnExecuteError("OperationalError"))
    /\ UNCHANGED << request, spotify_streams >>

\* results = cur.fetchall()
Fetch(r) ==
    /\ call[r].pc = "fetch"
    /\ call' = With(r, [pc |-> "close", results |-> call[r].rowset])
    /\ UNCHANGED << request, spotify_streams >>

FetchFails(r) ==
    /\ call[r].pc = "fetch"
    /\ call' = With(r, [store_errors |-> call[r].store_errors + 1] @@
                        Raise("OperationalError", << >>))
    /\ UNCHANGED << request, spotify_streams >>

\* cur.close(); conn.close()
Close(r) ==
    /\ call[r].pc = "close"
    /\ call' = With(r, [pc |-> "reshape", cur |-> "closed", conn |-> "closed"])
    /\ UNCHANGED << request, spotify_streams >>

\* --------------------------------------------------- response (l. 243-253)

\* float(x)
PyFloat(x) == [t |-> "float", v |-> x]

\* Variant: total_minutes and play_count read from each other's column.
ItemMetricsSwapped(group_by_columns, row) ==
    LET n == Len(group_by_columns)
        cols == {group_by_columns[i] : i \in 1..n}
        last(c) == CHOOSE i \in 1..n :
                      group_by_columns[i] = c
                      /\ \A j \in (i + 1)..n : group_by_columns[j] # c
    IN [k \in cols \cup {W("total_minutes"), W("play_count")} |->
            IF k = W("total_minutes") THEN PyFloat(row[n + 2])
            ELSE IF k = W("play_count") THEN row[n + 1]
            ELSE row[last(k)]]

\* The dict built for one row: item[col] = row[i] for i, col in
\* enumerate(group_by_columns) (a later assignment to the same key replaces
\* an earlier one), then total_minutes and play_count.
Item(group_by_columns, row) ==
    LET n == Len(group_by_columns)
        cols == {group_by_columns[i] : i \in 1..n}
        last(c) == CHOOSE i \in 1..n :
                      group_by_columns[i] = c
                      /\ \A j \in (i + 1)..n : group_by_columns[j] # c
    IN [k \in cols \cup {W("total_minutes"), W("play_count")} |->
            IF k = W("total_minutes") THEN PyFloat(row[n + 1])
            ELSE IF k = W("play_count") THEN row[n + 2]
            ELSE row[last(k)]]

\* data: one item per row, in the order of results.
Data(group_by_columns, results) ==
    [i \in 1..Len(results) |-> Item(group_by_columns, results[i])]

\* return {"data": data}
Return(r) ==
    /\ call[r].pc = "reshape"
    /\ call' = With(r, Respond(200, "", << >>,
                               Data(call[r].group_by_columns, call[r].results)))
    /\ UNCHANGED << request, spotify_streams >>

\* ------------------------------------------------------- specifications

Step(r) ==
    \/ Validate(r)
    \/ ParseGroupBy(r)
    \/ FilterArtists(r)
    \/ FilterYears(r)
    \/ BuildQuery(r)
    \/ Connect(r)
    \/ ConnectFails(r)
    \/ Cursor(r)
    \/ CursorFails(r)
    \/ Execute(r)
    \/ ExecuteFails(r)
    \/ Fetch(r)
    \/ FetchFails(r)
    \/ Close(r)
    \/ Return(r)

Next == \E r \in Reqs : Step(r)

\* One request with every parameter open, over the example table.
Init ==
    /\ request = [r \in Reqs |-> OpenRequest]
    /\ call = [r \in Reqs |-> IF r = 1 THEN Frame("recv") ELSE Frame("off")]
    /\ spotify_streams = ExampleTable

Spec == Init /\ [][Next]_vars

\* Requests with a fixed query string: the shapes of query and filter the
\* endpoint serves, and two whose filter_years holds no integer.
GroupByChoices ==
    { W("artist_name"), W("year"),
      << "artist_name", ",", "year" >>, << "year", ",", " ", "artist_name" >> }

FilterChoices ==
    { << None, None >>,
      << Some(<< "A", ",", "B" >>), None >>,
      << None, Some(Y2021) >>,
      << Some(<< "A", ",", " ", "C" >>), Some(Y2020) >> }

FixedRequests ==
    { QueryString(g, f[1], f[2], l, t) :
        g \in GroupByChoices, f \in FilterChoices,
        l \in {Some(1), Some(2)}, t \in BOOLEAN }
    \cup
    { QueryString(W("artist_name"), None, Some(y), None, FALSE) :
        y \in { Y2020 \o << "," >>, W("x") } }

\* One request with a fixed query string, over every table.
InitRequests ==
    /\ \E q \in FixedRequests : request = [r \in Reqs |-> q]
    /\ call = [r \in Reqs |-> IF r = 1 THEN Frame("recv") ELSE Frame("off")]
    /\ spotify_streams \in AllTables

SpecRequests == InitRequests /\ [][Next]_vars

\* Three requests served at once, their steps interleaved in any order.
ConcRequests ==
    { QueryString(W("artist_name"), None, None, None, FALSE),
      QueryString(<< "artist_name", ",", "year" >>,
                  Some(<< "A", ",", "B" >>), Some(Y2020), Some(2), TRUE),
      QueryString(<< "year", ",", "artist_name" >>,
                  Some(W("B")), Some(Y2021 \o << "," >> \o Y2020), Some(1), FALSE) }

InitConc ==
    /\ request \in [Reqs -> ConcRequests]
    /\ call = [r \in Reqs |-> Frame("recv")]
    /\ spotify_streams = ExampleTable

SpecConc == InitConc /\ [][Next]_vars

\* ================================================================ claims

\* The fixed dimension set of the specification.
Dimensions ==
    { W("artist_name"), W("track_name"), W("album_name"), W("year"),
      W("month"), W("day_of_week"), W("hour") }

\* The call has built nothing and touched no store.
NothingBuilt(c) ==
    /\ c.query = << >> /\ c.where_clauses = << >> /\ c.params = << >>
    /\ c.conn = "none" /\ c.cur = "none" /\ c.executes = 0

\* C1: a call whose parsed group_by list holds a name outside the fixed
\* dimension set ends with the 400 HTTPException that names the first such
\* column, with no statement text assembled, no connection opened and no
\* statement executed.
C1_InvalidDimensionRejected ==
    \A r \in Reqs :
        LET c == call[r]
            outside == {i \in 1..Len(c.group_by_columns) :
                           c.group_by_columns[i] \notin Dimensions}
        IN outside # {} =>
              /\ c.pc = "done"
              /\ c.response.status = 400
              /\ c.response.exc = "HTTPException"
              /\ c.response.detail =
                    W("Invalid column: ") \o
                    c.group_by_columns[CHOOSE i \in outside : \A j \in outside : i <= j]
              /\ NothingBuilt(c)

\* C1 witness: group_by=artist_name,bogus was rejected on its second column.
C1_Witness ==
    /\ call[1].group_by_columns = << W("artist_name"), W("bogus") >>
    /\ call[1].response.status = 400

\* C2: no finished call leaves its connection open.
C2_ConnectionReleased ==
    \A r \in Reqs : call[r].pc = "done" => call[r].conn # "open"

\* A valid group_by value: every column of it is a dimension.
ValidGroupBy(g) ==
    \A i \in 1..Len(ParseColumns(g)) : ParseColumns(g)[i] \in Dimensions

\* The pieces of a filter_years value that int() cannot read.
Unparsable(y) ==
    {i \in 1..Len(Split(y, ",")) : ~IsIntLiteral(Split(y, ",")[i])}

\* C3: a finished call with a valid group_by (and a limit in range) whose
\* filter_years holds a value that is no integer ended with a client error
\* (4xx, never 5xx) and made no store call.
C3_InvalidFilterValueIsClientError ==
    \A r \in Reqs :
        LET q == request[r]
            c == call[r]
        IN ( /\ ~q.open /\ c.pc = "done"
             /\ ValidGroupBy(q.group_by)
             /\ (q.limit = None \/ q.limit[1] \in 1..1000)
             /\ Truthy(q.filter_years)
             /\ Unparsable(q.filter_years[1]) # {} )
           => /\ c.response.status \in 400..499
              /\ c.conn = "none" /\ c.executes = 0

\* ---- the query semantics of the specification, stated on the table ----

\* The call holds the rows it fetched.
HasResults(c) ==
    c.pc \in {"close", "reshape"} \/ (c.pc = "done" /\ c.response.status = 200)

\* The requested dimensions, the limit and the ranking mode of a request.
ReqDims(q) == ParseColumns(q.group_by)
ReqLimit(q) == IF q.limit = None THEN 50 ELSE q.limit[1]
ReqRanked(q) == q.top_per_group /\ Len(ReqDims(q)) > 1

\* A filter is supplied when its parameter is given and not empty; its
\* values are the comma-separated items, white space around each removed.
FilterValues(f) == { Strip(Split(f[1], ",")[i]) : i \in 1..Len(Split(f[1], ",")) }

\* rec passes every supplied filter: OR within a filter, AND across filters.
Contributes(q, rec) ==
    /\ Truthy(q.filter_artists) =>
          \E v \in FilterValues(q.filter_artists) : rec.artist_name = v
    /\ Truthy(q.filter_years) =>
          \E v \in FilterValues(q.filter_years) : rec.year = IntOf(v)

\* rec's values in the requested dimensions.
RecKey(q, rec) == [i \in 1..Len(ReqDims(q)) |-> rec[ReqDims(q)[i][1]]]

\* The indices of the contributing records whose dimensions are key.
GroupOf(q, key) ==
    {k \in 1..Len(spotify_streams) :
        Contributes(q, spotify_streams[k]) /\ RecKey(q, spotify_streams[k]) = key}

RowKey(q, row) == SubSeq(row, 1, Len(ReqDims(q)))
RowTotal(q, row) == row[Len(ReqDims(q)) + 1]
RowCount(q, row) == row[Len(ReqDims(q)) + 2]

RECURSIVE SumCounts(_, _)
SumCounts(q, rows) ==
    IF rows = << >> THEN 0 ELSE RowCount(q, Head(rows)) + SumCounts(q, Tail(rows))

\* rows are in descending order of total_minutes and at most limit many.
DescendingWithinLimit(q, rows) ==
    /\ \A i \in 1..(Len(rows) - 1) : RowTotal(q, rows[i]) >= RowTotal(q, rows[i + 1])
    /\ Len(rows) <= ReqLimit(q)

\* C4: with top_per_group and more than one dimension, every value of the
\* primary dimension is in at most one fetched row, that row is a group of
\* contributing records whose summed minutes_played no group of the same
\* primary value exceeds, and the rows are in descending order of the sum
\* and at most limit many.
C4_TopPerPrimaryGroup ==
    \A r \in Reqs :
        LET q == request[r]
            rows == call[r].results
        IN (~q.open /\ HasResults(call[r]) /\ ReqRanked(q)) =>
              /\ \A i, j \in 1..Len(rows) : i # j => rows[i][1] # rows[j][1]
              /\ \A i \in 1..Len(rows) :
                    /\ GroupOf(q, RowKey(q, rows[i])) # {}
                    /\ RowTotal(q, rows[i]) =
                          SumMinutes(spotify_streams, GroupOf(q, RowKey(q, rows[i])))
                    /\ \A k \in 1..Len(spotify_streams) :
                          ( /\ Contributes(q, spotify_streams[k])
                            /\ RecKey(q, spotify_streams[k])[1] = rows[i][1] )
                          => SumMinutes(spotify_streams,
                                        GroupOf(q, RecKey(q, spotify_streams[k])))
                                <= RowTotal(q, rows[i])
              /\ DescendingWithinLimit(q, rows)

\* C4 witness: a ranked answer of two rows over a table where one primary
\* value has two groups of different sums.
C4_Witness ==
    LET q == request[1]
    IN /\ ~q.open /\ ReqRanked(q) /\ call[1].response.status = 200
       /\ Len(call[1].results) = 2
       /\ \E k, m \in 1..Len(spotify_streams) :
             /\ Contributes(q, spotify_streams[k]) /\ Contributes(q, spotify_streams[m])
             /\ RecKey(q, spotify_streams[k])[1] = RecKey(q, spotify_streams[m])[1]
             /\ SumMinutes(spotify_streams, GroupOf(q, RecKey(q, spotify_streams[k])))
                   < SumMinutes(spotify_streams, GroupOf(q, RecKey(q, spotify_streams[m])))

\* C5: in plain mode, or with a single dimension, the fetched rows are
\* per-group aggregates over the whole dimension sequence: distinct groups,
\* in descending order of total_minutes, at most limit many, each with the
\* sum and the number of the contributing records of its group, and the
\* play_counts add up to no more than the number of contributing records.
C5_PlainAggregates ==
    \A r \in Reqs :
        LET q == request[r]
            rows == call[r].results
        IN (~q.open /\ HasResults(call[r]) /\ ~ReqRanked(q)) =>
              /\ DescendingWithinLimit(q, rows)
              /\ \A i, j \in 1..Len(rows) :
                    i # j => RowKey(q, rows[i]) # RowKey(q, rows[j])
              /\ \A i \in 1..Len(rows) :
                    /\ RowCount(q, rows[i]) >= 1
                    /\ RowCount(q, rows[i]) = Cardinality(GroupOf(q, RowKey(q, rows[i])))
                    /\ RowTotal(q, rows[i]) =
                          SumMinutes(spotify_streams, GroupOf(q, RowKey(q, rows[i])))
              /\ SumCounts(q, rows) <=
                    Cardinality({k \in 1..Len(spotify_streams) :
                                    Contributes(q, spotify_streams[k])})

\* C5 witness: a plain answer over two dimensions, cut by limit = 2 from
\* three groups to two rows of different totals.
C5_Witness ==
    LET q == request[1]
        rows == call[1].results
    IN /\ ~q.open /\ ~q.top_per_group /\ Len(ReqDims(q)) = 2
       /\ call[1].response.status = 200
       /\ ReqLimit(q) = 2 /\ Len(rows) = 2
       /\ RowTotal(q, rows[1]) > RowTotal(q, rows[2])
       /\ Cardinality({RecKey(q, spotify_streams[k]) : k \in 1..Len(spotify_streams)}) = 3

\* C6: a record is counted in a fetched row exactly when it passes every
\* supplied filter (any listed value within a filter, all filters together),
\* and when the limit cuts nothing off in plain mode every record that
\* passes is in some row; without filters every record passes.
C6_FilterSemantics ==
    \A r \in Reqs :
        LET q == request[r]
            rows == call[r].results
        IN (~q.open /\ HasResults(call[r])) =>
              /\ \A i \in 1..Len(rows) :
                    RowCount(q, rows[i]) = Cardinality(GroupOf(q, RowKey(q, rows[i])))
              /\ (~ReqRanked(q) /\ Len(rows) < ReqLimit(q)) =>
                    SumCounts(q, rows) =
                       Cardinality({k \in 1..Len(spotify_streams) :
                                       Contributes(q, spotify_streams[k])})
              /\ (~Truthy(q.filter_artists) /\ ~Truthy(q.filter_years)) =>
                    \A k \in 1..Len(spotify_streams) :
                        Contributes(q, spotify_streams[k])

\* C6 witness: both filters supplied (artists A and C, year 2020) over a
\* table with a record that passes, one of a listed artist in another year
\* and one of an artist not listed; the answer holds the one that passes.
C6_Witness ==
    LET q == request[1]
    IN /\ ~q.open /\ Truthy(q.filter_artists) /\ Truthy(q.filter_years)
       /\ FilterValues(q.filter_artists) = {W("A"), W("C")}
       /\ call[1].response.status = 200
       /\ Len(call[1].results) = 1
       /\ \E k, m, n \in 1..Len(spotify_streams) :
             /\ Contributes(q, spotify_streams[k])
             /\ spotify_streams[m].artist_name = W("A") /\ spotify_streams[m].year = 2021
             /\ spotify_streams[n].artist_name = W("B") /\ spotify_streams[n].year = 2020

\* C7: a limit outside [1, 1000] is answered with the validation client
\* error before the handler builds or touches anything; an omitted limit is
\* 50; a limit in [1, 1000] passes validation unchanged; and the limit is
\* the value bound to the statement's LIMIT placeholder.
C7_LimitRange ==
    \A r \in Reqs :
        LET c == call[r]
            given == c.limit_arg # None
        IN c.pc \notin {"off", "recv"} =>
              /\ (given /\ (c.limit_arg[1] < 1 \/ c.limit_arg[1] > 1000)) =>
                    /\ c.pc = "done"
                    /\ c.response.status \in 400..499
                    /\ c.response.exc = "RequestValidationError"
                    /\ c.group_by_columns = << >>
                    /\ NothingBuilt(c)
              /\ ~given => c.limit = 50 /\ c.response.exc # "RequestValidationError"
              /\ (given /\ c.limit_arg[1] \in 1..1000) =>
                    c.limit = c.limit_arg[1] /\ c.response.exc # "RequestValidationError"
              /\ c.query # << >> =>
                    /\ c.params[Len(c.params)] = PyInt(c.limit)
                    /\ c.query[Len(c.query)] = "%s"
                    /\ c.query[Len(c.query) - 1] = "LIMIT"

\* C7 witness: limit=1001 was answered 422.
C7_Witness ==
    /\ call[1].limit_arg = Some(1001)
    /\ call[1].pc = "done"
    /\ call[1].response.status = 422

\* The tokens the statement templates and the dimension names are made of.
SqlVocabulary ==
    { "WITH", "ranked", "AS", "(", ")", "SELECT", ",", " ", "as", "FROM",
      "SUM(minutes_played)", "COUNT(*)", "ROW_NUMBER()", "OVER", "PARTITION BY",
      "ORDER BY", "GROUP BY", "DESC", "WHERE", "IN", "AND", "1=1", "rn", "=", "1",
      "LIMIT", "%s", "spotify_streams", "total_minutes", "play_count" }
    \cup { d[1] : d \in Dimensions }

\* The positions of the placeholders of a statement text, in text order.
PlaceholderAt(text, k) ==
    CHOOSE i \in 1..Len(text) :
        text[i] = "%s" /\ Cardinality({j \in 1..i : text[j] = "%s"}) = k

\* What the placeholder at position i stands under: the column of its IN
\* list, or LIMIT.
OwnerOf(text, i) ==
    LET j == CHOOSE m \in 1..(i - 1) :
                text[m] \in {"IN", "LIMIT"}
                /\ \A n \in (m + 1)..(i - 1) : text[n] \notin {"IN", "LIMIT"}
    IN IF text[j] = "LIMIT" THEN "LIMIT" ELSE text[j - 2]

\* C8: once the statement is built, params is the artist values in the
\* order given, then the year values in the order given, then the limit;
\* the text has one placeholder per bind value, the k-th placeholder
\* standing where the k-th value belongs; and the text holds nothing but
\* template tokens and dimension names.
C8_BindOrder ==
    \A r \in Reqs :
        LET c == call[r]
            na == Len(c.artist_list)
            ny == Len(c.year_list)
        IN c.query # << >> =>
              /\ c.params = [i \in 1..na |-> PyStr(c.artist_list[i])]
                            \o [i \in 1..ny |-> PyInt(c.year_list[i])]
                            \o << PyInt(c.limit) >>
              /\ Cardinality({i \in 1..Len(c.query) : c.query[i] = "%s"}) = Len(c.params)
              /\ \A k \in 1..Len(c.params) :
                    OwnerOf(c.query, PlaceholderAt(c.query, k)) =
                       IF k <= na THEN "artist_name"
                       ELSE IF k <= na + ny THEN "year" ELSE "LIMIT"
              /\ \A i \in 1..Len(c.query) : c.query[i] \in SqlVocabulary

\* C8 witness: a ranked statement built with two artists and two years.
C8_Witness ==
    /\ call[1].pc = "connect"
    /\ call[1].query[1] = "WITH"
    /\ call[1].artist_list = << W("A"), W("B") >>
    /\ call[1].year_list = << 2021, 2020 >>

\* C9: a call in which the store's driver raised ends at once with the 500
\* error response and no data; cur.execute runs at most once per call; a
\* 200 response carries one item per row of the executed statement's whole
\* result set.
C9_StoreErrorSurfaced ==
    \A r \in Reqs :
        LET c == call[r]
        IN /\ c.executes <= 1
           /\ c.store_errors <= 1
           /\ c.store_errors > 0 =>
                 /\ c.pc = "done"
                 /\ c.response.status = 500
                 /\ c.response.data = << >>
           /\ c.response.status = 200 =>
                 /\ c.store_errors = 0 /\ c.executes = 1
                 /\ c.results = c.rowset
                 /\ Len(c.response.data) = Len(c.rowset)

\* C9 witness: cur.execute raised over a populated table and the call
\* ended with the 500 response.
C9_Witness ==
    /\ call[1].store_errors = 1 /\ call[1].executes = 1
    /\ call[1].cur = "open"
    /\ call[1].response.status = 500
    /\ call[1].response.exc = "OperationalError"
    /\ spotify_streams = ExampleTable

\* C10: any two calls serving identical requests, however their steps and
\* those of other calls interleave, build the same statement text and the
\* same bind values.
C10_Deterministic ==
    \A r1, r2 \in Reqs :
        ( /\ request[r1] = request[r2]
          /\ call[r1].query # << >> /\ call[r2].query # << >> )
        => /\ call[r1].query = call[r2].query
           /\ call[r1].params = call[r2].params

\* C10 witness: two identical filtered requests have built their statements
\* while a call for a different request is between its filters.
C10_Witness ==
    /\ request[1] = request[3] /\ request[2] # request[1]
    /\ Truthy(request[1].filter_artists)
    /\ call[1].pc = "done" /\ call[1].response.status = 200
    /\ call[2].pc = "years" /\ call[2].params # << >>
    /\ call[3].pc = "connect"

\* C11: a 200 response holds one item per row of the store's answer, in
\* the store's order; the item of a row has the requested dimension names
\* and total_minutes and play_count as its keys and nothing else, the i-th
\* requested name holds the row's i-th column, total_minutes is the float of
\* column N and play_count is column N+1 (columns counted from 0, N the
\* number of requested names), also when a name is requested twice.
C11_RowShape ==
    \A r \in Reqs :
        LET c == call[r]
            cols == c.group_by_columns
            n == Len(cols)
            data == c.response.data
        IN c.response.status = 200 =>
              /\ Len(data) = Len(c.rowset)
              /\ \A k \in 1..Len(data) :
                    /\ DOMAIN data[k] =
                          {cols[i] : i \in 1..n} \cup {W("total_minutes"), W("play_count")}
                    /\ \A i \in 1..n : data[k][cols[i]] = c.rowset[k][i]
                    /\ data[k][W("total_minutes")] = [t |-> "float", v |-> c.rowset[k][n + 1]]
                    /\ data[k][W("play_count")] = c.rowset[k][n + 2]

\* C11 witness: group_by=artist_name,artist_name answered with two items.
C11_Witness ==
    /\ call[1].group_by_columns = << W("artist_name"), W("artist_name") >>
    /\ call[1].response.status = 200
    /\ Len(call[1].response.data) = 2
    /\ call[1].rowset[1][3] # call[1].rowset[1][4]

====
